---- MODULE Spec2Model ----
(***************************************************************************)
(* Model of the favorites store of vscode-favor: class FavoritesProvider    *)
(* and the commands registered by activate() (latest TypeScript variant).   *)
(*                                                                         *)
(* JavaScript objects are shared by reference.  A history snapshot is      *)
(* `new Map(this.groups)`: a new name -> GroupData map whose values are the *)
(* SAME GroupData objects as the live map.  The model therefore keeps a    *)
(* heap of GroupData objects; `groups` and every snapshot map names to     *)
(* object ids.                                                             *)
(***************************************************************************)
EXTENDS Integers, Sequences, FiniteSets, TLC

VARIABLES groups, heap, activeGroup, history, disk, pending, commands

vars == <<groups, heap, activeGroup, history, disk, pending, commands>>

----------------------------------------------------------------------------
(* Universe of the inputs *)

\* private readonly DEFAULT_GROUP = 'default'
DEFAULT_GROUP == "default"

\* null / undefined / '' : every test of the code on these is a truthiness test
NULL == "null"

\* names the user types into the input boxes
GroupNames == {"default", "A", "BA"}

\* The file system the host shows: a path is the sequence of its segments.
\*   /d/f1   /d/.h/f3   /d/sub/f2       and /missing, which does not exist
DirPath == <<"d">>
MissingPath == <<"missing">>

\* the files the user adds one at a time (sub/f2 comes in with the directory)
FilePaths == {<<"d", "f1">>}

\* fs.readdirSync(dirPath, { withFileTypes: true })
ReadDir(dirPath) ==
    IF dirPath = <<"d">> THEN {[name |-> "f1", isDirectory |-> FALSE],
                               [name |-> ".h", isDirectory |-> TRUE],
                               [name |-> "sub", isDirectory |-> TRUE]}
    ELSE IF dirPath = <<"d", "sub">> THEN {[name |-> "f2", isDirectory |-> FALSE]}
    ELSE IF dirPath = <<"d", ".h">> THEN {[name |-> "f3", isDirectory |-> FALSE]}
    ELSE {}

\* the characters of the strings whose characters the code looks at
Chars(s) ==
    CASE s = "default" -> <<"d", "e", "f", "a", "u", "l", "t">>
      [] s = "A" -> <<"A">>
      [] s = "BA" -> <<"B", "A">>
      [] s = "(Default Group)" -> <<"(", "D", "e", "f", "a", "u", "l", "t", " ",
                                    "G", "r", "o", "u", "p", ")">>
      [] s = " > " -> <<" ", ">", " ">>
      [] s = ".h" -> <<".", "h">>
      [] s = "f1" -> <<"f", "1">>
      [] s = "f2" -> <<"f", "2">>
      [] s = "f3" -> <<"f", "3">>
      [] s = "sub" -> <<"s", "u", "b">>
      [] OTHER -> <<>>

\* this.maxHistorySize = 50
maxHistorySize == 50

\* bound of the model: commands and prompt answers since the window opened
MaxCommands == 5

\* bound of the model: longest history explored
MaxHistory == 2

\* bound of the model: GroupData objects alive at the same time
MaxObjects == 3

\* bound of the model: commands of a long session (SpecHistory), enough for
\* 60 snapshots
MaxLongRun == 61

ObjIds == 1..MaxObjects

----------------------------------------------------------------------------
(* JavaScript Map<K, V> as a function; insertion order is not modelled *)

EmptyMap == [k \in {} |-> NULL]

MapSet(m, k, v) == [x \in (DOMAIN m) \cup {k} |-> IF x = k THEN v ELSE m[x]]

MapDelete(m, k) == [x \in (DOMAIN m) \ {k} |-> m[x]]

Range(f) == {f[x] : x \in DOMAIN f}

Min(S) == CHOOSE x \in S : \A y \in S : x <= y

\* a slot of the heap that holds no reachable object
FreeObj == [files |-> EmptyMap, subGroups |-> {}, parentGroup |-> "free"]

\* { files: new Map(), subGroups: new Map(), parentGroup }
NewGroupData(parent) == [files |-> EmptyMap, subGroups |-> {}, parentGroup |-> parent]

\* the provider's fields, as one value the handlers transform step by step
Store == [groups |-> groups, heap |-> heap, activeGroup |-> activeGroup,
          history |-> history]

\* objects referenced by the live map or by a snapshot
Reachable(st) ==
    Range(st.groups) \cup UNION {Range(st.history[i].groups) : i \in DOMAIN st.history}

CanAllocate(st) == ObjIds \ Reachable(st) # {}

NewId(st) == Min(ObjIds \ Reachable(st))

\* the names in a fixed order, to enumerate a Map
NameOrder == <<"default", "A", "BA">>

Rank(n) == CHOOSE i \in DOMAIN NameOrder : NameOrder[i] = n

\* the object references of a name -> object map, in the order of NameOrder
\* (0 where the map has no such name)
Refs(g) == [i \in DOMAIN NameOrder |->
               IF NameOrder[i] \in DOMAIN g THEN g[NameOrder[i]] ELSE 0]

RECURSIVE HistoryRefs(_)
HistoryRefs(h) == IF h = <<>> THEN <<>> ELSE Refs(Head(h).groups) \o HistoryRefs(Tail(h))

\* the new id of every reachable object: its place in the order in which the
\* live map and then the snapshots first refer to it
NewIds(st) ==
    CHOOSE f \in
        {[o \in Reachable(st) |->
             Cardinality({p \in Reachable(st) :
                 Min({i \in DOMAIN refs : refs[i] = p})
                     <= Min({i \in DOMAIN refs : refs[i] = o})})]
           : refs \in {Refs(st.groups) \o HistoryRefs(st.history)}} : TRUE

\* Garbage collection: an unreachable object is gone.  Object ids carry no
\* meaning beyond identity, so the reachable objects are renumbered.
Collect(st) ==
    CHOOSE c \in
        {[groups |-> [n \in DOMAIN s.groups |-> ids[s.groups[n]]],
          heap |-> [k \in ObjIds |->
                       IF \E o \in DOMAIN ids : ids[o] = k
                       THEN s.heap[CHOOSE o \in DOMAIN ids : ids[o] = k]
                       ELSE FreeObj],
          activeGroup |-> s.activeGroup,
          history |-> [i \in DOMAIN s.history |->
                          [s.history[i] EXCEPT !.groups = [n \in DOMAIN @ |-> ids[@[n]]]]]]
           : <<s, ids>> \in {<<x, NewIds(x)>> : x \in {st}}} : TRUE

\* this.groups.has(name)
Has(st, name) == name \in DOMAIN st.groups

\* this.groups.get(name), for a name the map has
Get(st, name) == st.heap[st.groups[name]]

\* this.groups.set(name, { files: new Map(), subGroups: new Map(), parentGroup })
SetNewGroup(st, name, parent) ==
    LET o == NewId(st) IN
    [st EXCEPT !.groups = MapSet(@, name, o),
               !.heap = [@ EXCEPT ![o] = NewGroupData(parent)]]

\* group.files.set(path, item) on the object the name refers to
FilesSet(st, name, path, item) ==
    [st EXCEPT !.heap = [@ EXCEPT ![st.groups[name]].files = MapSet(@, path, item)]]

\* group.files.delete(path)
FilesDelete(st, name, path) ==
    [st EXCEPT !.heap = [@ EXCEPT ![st.groups[name]].files = MapDelete(@, path)]]

\* a FavoriteItem stored in a files map: { path, name, groupName? }; the path is
\* the key of the map and the name is path.basename(path)
Item(gn) == [groupName |-> gn]

----------------------------------------------------------------------------
(* History *)

\* saveToHistory(type, data): the snapshot holds new Map(this.groups), a copy of
\* the name -> object map; the GroupData objects themselves are not copied.
\* snapshot.favorites is the files Map of the default group's object, which
\* snapshot.groups already references; type, data and timestamp are never read.
\* (a stack that, when full, refuses the newest snapshot instead of dropping
\* the oldest: what saveToHistory must be told apart from)
saveToHistoryKeepsOldest(st) ==
    LET snapshot == [groups |-> st.groups, activeGroup |-> st.activeGroup]
        pushed == Append(st.history, snapshot)
    IN  [st EXCEPT !.history = IF Len(pushed) > maxHistorySize THEN st.history
                                                               ELSE pushed]

saveToHistory(st) ==
    LET snapshot == [groups |-> st.groups, activeGroup |-> st.activeGroup]
        pushed == Append(st.history, snapshot)
    IN  [st EXCEPT !.history = IF Len(pushed) > maxHistorySize THEN Tail(pushed)
                                                               ELSE pushed]

----------------------------------------------------------------------------
(* Persistence *)

\* .vscode/favor.json does not exist (readFileSync throws ENOENT)
NoDocument == [exists |-> FALSE, groups |-> EmptyMap, activeGroup |-> NULL]

\* the SaveData written by saveFavorites(): per group the keys of files and
\* parentGroup, plus activeGroup
Serialize(st) ==
    [exists |-> TRUE,
     groups |-> [n \in DOMAIN st.groups |->
                    [files |-> DOMAIN Get(st, n).files,
                     parentGroup |-> Get(st, n).parentGroup]],
     activeGroup |-> st.activeGroup]

\* loadFavorites(), run by the constructor on a new provider: the constructor's
\* default group, then one new GroupData per group of the document (files become
\* items without groupName, subGroups is empty), the default group if the
\* document has none, and activeGroup
loadFavorites(doc) ==
    LET names == (DOMAIN doc.groups) \cup {DEFAULT_GROUP}
        idOf(n) == Cardinality({m \in names : Rank(m) <= Rank(n)})
        loaded(n) ==
            IF n \in DOMAIN doc.groups
            THEN [files |-> [p \in doc.groups[n].files |-> [groupName |-> NULL]],
                  subGroups |-> {},
                  parentGroup |-> doc.groups[n].parentGroup]
            ELSE NewGroupData(NULL)
    IN  [groups |-> [n \in names |-> idOf(n)],
         heap |-> [o \in ObjIds |->
                      IF \E n \in names : idOf(n) = o
                      THEN loaded(CHOOSE n \in names : idOf(n) = o)
                      ELSE FreeObj],
         activeGroup |-> IF doc.exists THEN doc.activeGroup ELSE NULL,
         history |-> <<>>]

----------------------------------------------------------------------------
(* Tree view: the elements the host hands to the commands *)

\* getChildren(undefined): the groups without parentGroup
RootGroups(st) == {n \in DOMAIN st.groups : Get(st, n).parentGroup = NULL}

\* getChildren(element) of a group element: the groups whose parentGroup is its name
ChildGroups(st, name) == {n \in DOMAIN st.groups : Get(st, n).parentGroup = name}

RECURSIVE Shown(_, _, _)
Shown(st, S, k) ==
    IF k = 0 THEN S
    ELSE Shown(st, S \cup UNION {ChildGroups(st, n) : n \in S}, k - 1)

\* the groups that have a node in the tree
VisibleGroups(st) == Shown(st, RootGroups(st), Cardinality(GroupNames))

\* a group node: { name, path: '', isGroup: true }
GroupElement(n) == [name |-> n, path |-> <<>>, isGroup |-> TRUE, groupName |-> NULL]

\* a file node: { ...item, groupName: element.name, contextValue: 'file' }; the
\* item stored under the empty path is a group node, which keeps isGroup
FileElement(p, g) ==
    [name |-> IF p = <<>> THEN "" ELSE p[Len(p)], path |-> p, isGroup |-> p = <<>>,
     groupName |-> g]

FileElements(st) ==
    UNION {{FileElement(p, g) : p \in DOMAIN Get(st, g).files} : g \in VisibleGroups(st)}

----------------------------------------------------------------------------
(* PathResolver *)

\* a full path is kept as the sequence of its segments; this is its string
\* `${parent} > ${path}`, as characters
RECURSIVE PathString(_)
PathString(segs) ==
    IF Len(segs) = 1 THEN Chars(segs[1])
    ELSE Chars(segs[1]) \o Chars(" > ") \o PathString(Tail(segs))

\* String.prototype.endsWith
EndsWith(s, t) == Len(t) <= Len(s) /\ SubSeq(s, Len(s) - Len(t) + 1, Len(s)) = t

\* the while loop of getGroupFullPath never ends: the parent links from name
\* run into a cycle of existing groups
RECURSIVE Loops(_, _, _)
Loops(st, name, fuel) ==
    IF ~Has(st, name) \/ Get(st, name).parentGroup = NULL THEN FALSE
    ELSE IF fuel = 0 THEN TRUE
    ELSE Loops(st, Get(st, name).parentGroup, fuel - 1)

getGroupFullPathLoops(st, name) == Loops(st, name, Cardinality(GroupNames))

\* getGroupFullPath(groupName), when the loop ends
RECURSIVE getGroupFullPath(_, _)
getGroupFullPath(st, groupName) ==
    IF ~Has(st, groupName) THEN <<groupName>>
    ELSE LET parent == Get(st, groupName).parentGroup IN
         IF parent = NULL THEN <<groupName>>
         ELSE IF ~Has(st, parent) THEN <<parent, groupName>>
         ELSE getGroupFullPath(st, parent) \o <<groupName>>

\* getAllGroupsWithPath(): '(Default Group)' and the full path of every group
getAllGroupsWithPath(st) ==
    {<<"(Default Group)">>} \cup {getGroupFullPath(st, n) : n \in DOMAIN st.groups}

----------------------------------------------------------------------------
(* Handlers of FavoritesProvider, as functions of the provider's fields *)

\* entry.name.startsWith('.')
StartsWithDot(name) == Chars(name) # <<>> /\ Chars(name)[1] = "."

\* getAllFilesInDirectory(dirPath): every file below dirPath, dot-entries skipped
RECURSIVE getAllFilesInDirectory(_)
getAllFilesInDirectory(dirPath) ==
    UNION {IF StartsWithDot(e.name) THEN {}
           ELSE IF e.isDirectory THEN getAllFilesInDirectory(Append(dirPath, e.name))
           ELSE {Append(dirPath, e.name)} : e \in ReadDir(dirPath)}

\* const targetGroup = this.activeGroup || this.DEFAULT_GROUP
TargetGroup(st) == IF st.activeGroup # NULL THEN st.activeGroup ELSE DEFAULT_GROUP

\* files.forEach(filePath => { ... if (group) group.files.set(filePath, favorite) })
InsertFavorites(st, paths) ==
    IF Has(st, TargetGroup(st))
    THEN [st EXCEPT !.heap = [@ EXCEPT ![st.groups[TargetGroup(st)]].files =
            [p \in (DOMAIN @) \cup paths |-> IF p \in paths THEN Item(NULL) ELSE @[p]]]]
    ELSE st

\* fs.statSync(uri.fsPath) throws for a path that does not exist
StatThrows(uri) == uri = MissingPath

\* addFavorite(uri)
addFavorite(st, uri) ==
    LET s1 == saveToHistory(st) IN
    IF StatThrows(uri) THEN s1
    ELSE IF uri = DirPath THEN InsertFavorites(s1, getAllFilesInDirectory(uri))
    ELSE InsertFavorites(s1, {uri})

\* removeFavorite(item)
removeFavorite(st, item) ==
    LET s1 == saveToHistory(st) IN
    IF item.groupName # NULL
    THEN IF Has(s1, item.groupName)
         THEN LET s2 == FilesDelete(s1, item.groupName, item.path) IN
              IF DOMAIN Get(s2, item.groupName).files = {}
              THEN [s2 EXCEPT !.groups = MapDelete(@, item.groupName)]
              ELSE s2
         ELSE s1
    ELSE IF Has(s1, DEFAULT_GROUP) THEN FilesDelete(s1, DEFAULT_GROUP, item.path)
         ELSE s1

\* addToGroup(uri, groupName) with the group name given
addToGroup(st, uri, groupName) ==
    LET s1 == IF Has(st, groupName) THEN st ELSE SetNewGroup(st, groupName, NULL)
    IN  FilesSet(s1, groupName, uri, Item(groupName))

\* removeFromGroup(item, groupName)
removeFromGroup(st, item, groupName) ==
    IF Has(st, groupName)
    THEN LET s1 == FilesDelete(st, groupName, item.path) IN
         IF DOMAIN Get(s1, groupName).files = {}
         THEN [s1 EXCEPT !.groups = MapDelete(@, groupName)]
         ELSE s1
    ELSE st

\* renameGroup(groupElement), after the input box returned newName
renameGroupApplies(st, element, newName) ==
    /\ element.isGroup
    /\ newName # NULL
    /\ newName # element.name
    /\ Has(st, element.name)

\* (a rename that sets the new key and leaves the old key in the map: what
\* renameGroup must be told apart from)
renameGroupKeepsOldKey(st, element, newName) ==
    IF renameGroupApplies(st, element, newName)
    THEN LET o == st.groups[element.name] IN
         [st EXCEPT !.groups = MapSet(@, newName, o),
                    !.heap = [@ EXCEPT ![o].files =
                                 [p \in DOMAIN @ |-> [@[p] EXCEPT !.groupName = newName]]]]
    ELSE st

renameGroup(st, element, newName) ==
    IF renameGroupApplies(st, element, newName)
    THEN LET o == st.groups[element.name] IN
         [st EXCEPT !.groups = MapDelete(MapSet(@, newName, o), element.name),
                    !.heap = [@ EXCEPT ![o].files =
                                 [p \in DOMAIN @ |-> [@[p] EXCEPT !.groupName = newName]]]]
    ELSE st

\* the recursion of deleteSubGroups does not end when a name comes back on its
\* own stack; it then ends in a RangeError (overflow), with the deletions made
\* so far kept
RECURSIVE deleteSubGroups(_, _, _)
deleteSubGroups(st, subGroups, fuel) ==
    IF subGroups = {} THEN [st |-> st, overflow |-> FALSE]
    ELSE LET n == CHOOSE x \in subGroups : \A y \in subGroups : Rank(x) <= Rank(y)
             rest == subGroups \ {n}
         IN  IF ~Has(st, n) THEN deleteSubGroups(st, rest, fuel)
             ELSE IF fuel = 0 THEN [st |-> st, overflow |-> TRUE]
             ELSE LET inner == deleteSubGroups(st, Get(st, n).subGroups, fuel - 1) IN
                  IF inner.overflow THEN inner
                  ELSE deleteSubGroups(
                           [inner.st EXCEPT !.groups = MapDelete(@, n)], rest, fuel)

\* deleteGroup(groupElement): [st, saved]
deleteGroup(st, element) ==
    LET s1 == saveToHistory(st) IN
    IF element.isGroup /\ Has(s1, element.name)
    THEN LET group == Get(s1, element.name)
             s2 == [s1 EXCEPT !.groups = MapDelete(@, element.name)]
             s3 == IF group.parentGroup # NULL /\ Has(s2, group.parentGroup)
                   THEN [s2 EXCEPT !.heap = [@ EXCEPT
                            ![s2.groups[group.parentGroup]].subGroups = @ \ {element.name}]]
                   ELSE s2
             r == deleteSubGroups(s3, group.subGroups, Cardinality(GroupNames))
         IN  [st |-> r.st, saved |-> ~r.overflow]
    ELSE [st |-> s1, saved |-> FALSE]

\* addNewGroup(parentGroup), after the input box returned groupName; parent is
\* parentGroup.name, or NULL without a parent element
addNewGroup(st, parent, groupName) ==
    LET s1 == SetNewGroup(st, groupName, parent) IN
    IF parent # NULL /\ Has(s1, parent)
    THEN [s1 EXCEPT !.heap = [@ EXCEPT ![s1.groups[parent]].subGroups = @ \cup {groupName}]]
    ELSE s1

\* the choice list of moveToGroup / copyToGroup for the selected items:
\* getAllGroupsWithPath(), without the entries that end with the current group
\* when every selected item has that groupName. none is the value compared when
\* the first item has no groupName: '' in moveToGroup, undefined in copyToGroup.
TargetChoices(st, selectedItems) ==
    LET currentGroup == selectedItems[1].groupName
        allSameGroup == \A i \in DOMAIN selectedItems :
                            selectedItems[i].groupName = currentGroup
        availableGroups == getAllGroupsWithPath(st)
    IN  IF allSameGroup /\ currentGroup # NULL
        THEN {g \in availableGroups : ~EndsWith(PathString(g), Chars(currentGroup))}
        ELSE availableGroups

\* targetGroupPath.split(' > ').pop()
LastSegment(targetGroupPath) == targetGroupPath[Len(targetGroupPath)]

\* one turn of the loop of moveToGroup
moveItem(st, item, finalTargetGroup) ==
    IF finalTargetGroup = DEFAULT_GROUP
    THEN LET s1 == IF item.groupName # NULL /\ Has(st, item.groupName)
                   THEN FilesDelete(st, item.groupName, item.path)
                   ELSE st
         IN  IF Has(s1, DEFAULT_GROUP)
             THEN FilesSet(s1, DEFAULT_GROUP, item.path, Item(NULL))
             ELSE s1
    ELSE LET s1 == IF item.groupName # NULL
                   THEN IF Has(st, item.groupName)
                        THEN FilesDelete(st, item.groupName, item.path)
                        ELSE st
                   ELSE IF Has(st, DEFAULT_GROUP)
                        THEN FilesDelete(st, DEFAULT_GROUP, item.path)
                        ELSE st
             s2 == IF Has(s1, finalTargetGroup) THEN s1
                   ELSE SetNewGroup(s1, finalTargetGroup, NULL)
         IN  FilesSet(s2, finalTargetGroup, item.path, Item(finalTargetGroup))

RECURSIVE moveItems(_, _, _)
moveItems(st, items, finalTargetGroup) ==
    IF items = <<>> THEN st
    ELSE moveItems(moveItem(st, Head(items), finalTargetGroup), Tail(items),
                   finalTargetGroup)

\* moveToGroup(item), after the quick pick returned targetGroupPath
moveToGroup(st, selectedItems, targetGroupPath) ==
    moveItems(st, selectedItems,
              IF targetGroupPath = <<"(Default Group)">> THEN DEFAULT_GROUP
              ELSE LastSegment(targetGroupPath))

\* one turn of the loop of copyToGroup
copyItem(st, item, finalTargetGroup) ==
    IF finalTargetGroup = "(Default Group)"
    THEN IF Has(st, DEFAULT_GROUP)
         THEN FilesSet(st, DEFAULT_GROUP, item.path, Item(NULL))
         ELSE st
    ELSE LET s1 == IF Has(st, finalTargetGroup) THEN st
                   ELSE SetNewGroup(st, finalTargetGroup, NULL)
         IN  FilesSet(s1, finalTargetGroup, item.path, Item(finalTargetGroup))

RECURSIVE copyItems(_, _, _)
copyItems(st, items, finalTargetGroup) ==
    IF items = <<>> THEN st
    ELSE copyItems(copyItem(st, Head(items), finalTargetGroup), Tail(items),
                   finalTargetGroup)

\* copyToGroup(item), after the quick pick returned targetGroupPath
copyToGroup(st, selectedItems, targetGroupPath) ==
    copyItems(st, selectedItems,
              IF targetGroupPath = <<"(Default Group)">> THEN "(Default Group)"
              ELSE LastSegment(targetGroupPath))

\* Array.from(this.groups.values()).some(group => group.files.size > 0)
hasFiles(st) == \E n \in DOMAIN st.groups : DOMAIN Get(st, n).files # {}

\* removeAll()
\* (a removeAll that clears the store down to its groups map: what removeAll
\* must be told apart from)
removeAllDropsGroups(st) ==
    LET s1 == saveToHistory(st) IN
    IF ~hasFiles(s1) THEN s1
    ELSE [s1 EXCEPT !.groups = [n \in DOMAIN @ \cap {DEFAULT_GROUP} |-> @[n]],
                    !.heap = [o \in DOMAIN @ |->
                                 IF o \in Range(s1.groups)
                                 THEN [@[o] EXCEPT !.files = EmptyMap]
                                 ELSE @[o]]]

removeAll(st) ==
    LET s1 == saveToHistory(st) IN
    IF ~hasFiles(s1) THEN s1
    ELSE [s1 EXCEPT !.heap = [o \in DOMAIN @ |->
                                 IF o \in Range(s1.groups)
                                 THEN [@[o] EXCEPT !.files = EmptyMap]
                                 ELSE @[o]]]

\* setActiveGroup(groupName)
setActiveGroup(st, groupName) == [st EXCEPT !.activeGroup = groupName]

\* undo() with a history that is not empty. The GroupData written under
\* DEFAULT_GROUP goes into the Map that the next statement replaces, and is lost
\* with it.
\* (an undo that restores the last snapshot and leaves it in the history: what
\* undo must be told apart from)
undoKeepsSnapshot(st) ==
    IF Len(st.history) = 0 THEN st
    ELSE
    LET lastOperation == st.history[Len(st.history)] IN
    [st EXCEPT !.groups = lastOperation.groups,
               !.activeGroup = lastOperation.activeGroup]

\* (an undo that, finding no snapshot, deactivates the active group: what the
\* early return of undo must be told apart from)
undoDeactivatesWhenEmpty(st) ==
    IF Len(st.history) = 0 THEN [st EXCEPT !.activeGroup = NULL]
    ELSE
    LET lastOperation == st.history[Len(st.history)] IN
    [st EXCEPT !.groups = lastOperation.groups,
               !.activeGroup = lastOperation.activeGroup,
               !.history = SubSeq(@, 1, Len(@) - 1)]

undo(st) ==
    IF Len(st.history) = 0 THEN st
    ELSE
    LET lastOperation == st.history[Len(st.history)] IN
    [st EXCEPT !.groups = lastOperation.groups,
               !.activeGroup = lastOperation.activeGroup,
               !.history = SubSeq(@, 1, Len(@) - 1)]

\* source.type of a dragged tree element: the elements built by getChildren
\* have no `type` property
ElementType(element) == NULL

\* one turn of the loop of handleDrop into a group element
dropItem(st, source, target, isCopy) ==
    IF ElementType(source) = "file"
    THEN LET s1 == IF isCopy THEN st
                   ELSE IF source.groupName # NULL
                        THEN IF Has(st, source.groupName)
                             THEN FilesDelete(st, source.groupName, source.path)
                             ELSE st
                        ELSE IF Has(st, DEFAULT_GROUP)
                             THEN FilesDelete(st, DEFAULT_GROUP, source.path)
                             ELSE st
             s2 == IF Has(s1, target.name) THEN s1
                   ELSE SetNewGroup(s1, target.name, NULL)
         IN  FilesSet(s2, target.name, source.path, Item(target.name))
    ELSE st

RECURSIVE dropItems(_, _, _, _)
dropItems(st, items, target, isCopy) ==
    IF items = <<>> THEN st
    ELSE dropItems(dropItem(st, Head(items), target, isCopy), Tail(items), target, isCopy)

\* handleDrop(target, dataTransfer) with a target: the branch `else if (!target)`
\* is never taken, the function returned at its first line
handleDrop(st, target, items, isCopy) ==
    IF target.isGroup THEN dropItems(st, items, target, isCopy) ELSE st

----------------------------------------------------------------------------
(* The commands: one action per command, and one per step of a command that
   waits for an input box or a quick pick.  The host shows one input box or
   quick pick at a time: opening one dismisses the one that was open. *)

NoPending == [op |-> "none", uri |-> <<>>, element |-> GroupElement(NULL),
              value |-> NULL, items |-> <<>>, choices |-> {}]

\* the extension host is inside a loop that never ends
Hung == [NoPending EXCEPT !.op = "hang"]

\* the extension host takes a command: it is in no endless loop, and the run
\* is within the bound of the model
Running == commands < MaxCommands /\ pending.op # "hang"

\* (a handler that calls saveFavorites() before its change instead of after
\* it: what Commit must be told apart from)
CommitSavesFirst(st, saved, pend) ==
    /\ Running
    /\ \E c \in {Collect(st)} :
          /\ groups' = c.groups
          /\ heap' = c.heap
          /\ activeGroup' = c.activeGroup
          /\ history' = c.history
          /\ disk' = IF saved THEN Serialize(Store) ELSE disk
          /\ pending' = pend
          /\ commands' = commands + 1

\* the fields after a handler, and the document when it called saveFavorites()
Commit(st, saved, pend) ==
    /\ Running
    /\ \E c \in {Collect(st)} :
          /\ groups' = c.groups
          /\ heap' = c.heap
          /\ activeGroup' = c.activeGroup
          /\ history' = c.history
          /\ disk' = IF saved THEN Serialize(c) ELSE disk
          /\ pending' = pend
          /\ commands' = commands + 1

\* the selections the tree view can hold: one or two file nodes
Selections(st) ==
    {<<e>> : e \in FileElements(st)}
        \cup {<<ef[1], ef[2]>> :
                 ef \in {x \in FileElements(st) \X FileElements(st) : x[1] # x[2]}}

\* the group nodes whose context menu offers rename and delete
\* (viewItem == group || viewItem == activeGroup)
EditableGroups(st) == VisibleGroups(st) \ {DEFAULT_GROUP}

\* vscode-favorites.addToFavorites with one uri
AddFavorite(uri) ==
    /\ Len(history) < MaxHistory
    /\ Commit(addFavorite(Store, uri), ~StatThrows(uri), pending)

\* vscode-favorites.removeFromFavorites on a file node
RemoveFavorite(item) ==
    /\ Len(history) < MaxHistory
    /\ Commit(removeFavorite(Store, item), TRUE, pending)

\* vscode-favorites.removeFromGroup(item, groupName)
RemoveFromGroup(item) ==
    Commit(removeFromGroup(Store, item, item.groupName), Has(Store, item.groupName),
           pending)

\* vscode-favorites.deleteGroup on a group node
DeleteGroup(name) ==
    /\ Len(history) < MaxHistory
    /\ LET r == deleteGroup(Store, GroupElement(name)) IN Commit(r.st, r.saved, pending)

\* vscode-favorites.removeAll
RemoveAll ==
    /\ Len(history) < MaxHistory
    /\ Commit(removeAll(Store), hasFiles(Store), pending)

\* vscode-favorites.setActiveGroup on a group node, vscode-favorites.deactivateGroup
SetActiveGroup(groupName) == Commit(setActiveGroup(Store, groupName), TRUE, pending)

\* vscode-favorites.undo
Undo ==
    /\ Len(history) > 0
    /\ Commit(undo(Store), TRUE, pending)

UndoEmpty ==
    /\ Len(history) = 0
    /\ Commit(undo(Store), FALSE, pending)

\* a drop on a group node of dragged tree elements
HandleDrop(target, items, isCopy) ==
    Commit(handleDrop(Store, GroupElement(target), items, isCopy), TRUE, pending)

\* the window is reloaded: a new provider is constructed and loads the document
Restart ==
    /\ Commit(loadFavorites(disk), FALSE, NoPending)

\* --- commands that wait for the user ---

\* vscode-favorites.addNewGroup / addNewSubGroup up to showInputBox
AddNewGroupOpen(parent) ==
    /\ pending' = [NoPending EXCEPT !.op = "addNewGroup", !.element = GroupElement(parent)]
    /\ Running
    /\ commands' = commands + 1
    /\ UNCHANGED <<groups, heap, activeGroup, history, disk>>

\* vscode-favorites.renameGroup up to showInputBox (value: groupElement.name)
RenameGroupOpen(name) ==
    /\ name # DEFAULT_GROUP
    /\ pending' = [NoPending EXCEPT !.op = "renameGroup", !.element = GroupElement(name),
                                    !.value = name]
    /\ Running
    /\ commands' = commands + 1
    /\ UNCHANGED <<groups, heap, activeGroup, history, disk>>

\* validateInput of the open input box accepts the text
validateInput(st, pend, value) ==
    /\ value # NULL
    /\ IF pend.op = "renameGroup" THEN ~(Has(st, value) /\ value # pend.element.name)
       ELSE ~Has(st, value)

\* the user types a name the input box accepts
TypeName(value) ==
    /\ pending.op \in {"addNewGroup", "renameGroup", "addToGroup.name"}
    /\ validateInput(Store, pending, value)
    /\ pending' = [pending EXCEPT !.value = value]
    /\ Running
    /\ commands' = commands + 1
    /\ UNCHANGED <<groups, heap, activeGroup, history, disk>>

\* (a dismissal that takes a history snapshot before it returns: what Cancel
\* must be told apart from)
CancelPushesSnapshot ==
    /\ pending.op \notin {"none", "hang"}
    /\ Commit(saveToHistory(Store), FALSE, NoPending)

\* the user dismisses the input box or quick pick
Cancel ==
    /\ pending.op \notin {"none", "hang"}
    /\ pending' = NoPending
    /\ Running
    /\ commands' = commands + 1
    /\ UNCHANGED <<groups, heap, activeGroup, history, disk>>

\* the input box of addNewGroup returns the accepted text
AddNewGroupAccept ==
    /\ pending.op = "addNewGroup"
    /\ pending.value # NULL
    /\ CanAllocate(Store)
    /\ Commit(addNewGroup(Store, pending.element.name, pending.value), TRUE, NoPending)

\* the input box of renameGroup returns the accepted text
RenameGroupAccept ==
    /\ pending.op = "renameGroup"
    /\ Commit(renameGroup(Store, pending.element, pending.value),
              renameGroupApplies(Store, pending.element, pending.value), NoPending)

\* vscode-favorites.moveToGroup / copyToGroup up to showQuickPick
PickTargetOpen(op, selectedItems) ==
    /\ pending' = IF \E n \in DOMAIN groups : getGroupFullPathLoops(Store, n)
                  THEN Hung
                  ELSE [NoPending EXCEPT !.op = op, !.items = selectedItems,
                                         !.choices = TargetChoices(Store, selectedItems)]
    /\ Running
    /\ commands' = commands + 1
    /\ UNCHANGED <<groups, heap, activeGroup, history, disk>>

MoveToGroupOpen(selectedItems) == PickTargetOpen("moveToGroup", selectedItems)

CopyToGroupOpen(selectedItems) == PickTargetOpen("copyToGroup", selectedItems)

\* the group a pick creates when the store does not have it
PickCreates(st, targetGroupPath) ==
    /\ targetGroupPath # <<"(Default Group)">>
    /\ ~Has(st, LastSegment(targetGroupPath))

\* the quick pick of moveToGroup returns an entry of its list
MoveToGroupAccept(targetGroupPath) ==
    /\ pending.op = "moveToGroup"
    /\ targetGroupPath \in pending.choices
    /\ PickCreates(Store, targetGroupPath) => CanAllocate(Store)
    /\ Commit(moveToGroup(Store, pending.items, targetGroupPath), TRUE, NoPending)

\* the quick pick of copyToGroup returns an entry of its list
CopyToGroupAccept(targetGroupPath) ==
    /\ pending.op = "copyToGroup"
    /\ targetGroupPath \in pending.choices
    /\ PickCreates(Store, targetGroupPath) => CanAllocate(Store)
    /\ Commit(copyToGroup(Store, pending.items, targetGroupPath), TRUE, NoPending)

\* vscode-favorites.addToGroup up to showQuickPick: the groups and "New Group..."
AddToGroupOpen(uri) ==
    /\ pending' = [NoPending EXCEPT !.op = "addToGroup.pick", !.uri = uri,
                                    !.choices = {<<n>> : n \in DOMAIN groups}]
    /\ Running
    /\ commands' = commands + 1
    /\ UNCHANGED <<groups, heap, activeGroup, history, disk>>

\* the quick pick returns an existing group
AddToGroupPick(label) ==
    /\ pending.op = "addToGroup.pick"
    /\ label \in pending.choices
    /\ ~Has(Store, label[1]) => CanAllocate(Store)
    /\ Commit(addToGroup(Store, pending.uri, label[1]), TRUE, NoPending)

\* the quick pick returns "New Group...": the input box opens
AddToGroupNew ==
    /\ pending.op = "addToGroup.pick"
    /\ pending' = [pending EXCEPT !.op = "addToGroup.name", !.choices = {}]
    /\ Running
    /\ commands' = commands + 1
    /\ UNCHANGED <<groups, heap, activeGroup, history, disk>>

\* the input box of addToGroup returns the accepted text
AddToGroupAccept ==
    /\ pending.op = "addToGroup.name"
    /\ pending.value # NULL
    /\ ~Has(Store, pending.value) => CanAllocate(Store)
    /\ Commit(addToGroup(Store, pending.uri, pending.value), TRUE, NoPending)

\* --- the same commands when the user answers before anything else runs ---

\* addNewGroup / addNewSubGroup, the input box answered with value
AddNewGroup(parent, value) ==
    /\ validateInput(Store, [NoPending EXCEPT !.op = "addNewGroup"], value)
    /\ CanAllocate(Store)
    /\ Commit(addNewGroup(Store, parent, value), TRUE, NoPending)

\* renameGroup, the input box answered with value
RenameGroup(name, value) ==
    /\ name # DEFAULT_GROUP
    /\ validateInput(Store, [NoPending EXCEPT !.op = "renameGroup",
                                              !.element = GroupElement(name)], value)
    /\ Commit(renameGroup(Store, GroupElement(name), value),
              renameGroupApplies(Store, GroupElement(name), value), NoPending)

\* moveToGroup, the quick pick answered with an entry of its list
MoveToGroup(selectedItems, targetGroupPath) ==
    /\ \A n \in DOMAIN groups : ~getGroupFullPathLoops(Store, n)
    /\ targetGroupPath \in TargetChoices(Store, selectedItems)
    /\ PickCreates(Store, targetGroupPath) => CanAllocate(Store)
    /\ Commit(moveToGroup(Store, selectedItems, targetGroupPath), TRUE, NoPending)

\* copyToGroup, the quick pick answered with an entry of its list
CopyToGroup(selectedItems, targetGroupPath) ==
    /\ \A n \in DOMAIN groups : ~getGroupFullPathLoops(Store, n)
    /\ targetGroupPath \in TargetChoices(Store, selectedItems)
    /\ PickCreates(Store, targetGroupPath) => CanAllocate(Store)
    /\ Commit(copyToGroup(Store, selectedItems, targetGroupPath), TRUE, NoPending)

\* addToGroup, an existing group picked or a new name typed
AddToGroup(uri, groupName) ==
    /\ ~Has(Store, groupName) => CanAllocate(Store)
    /\ Commit(addToGroup(Store, uri, groupName), TRUE, NoPending)

----------------------------------------------------------------------------

Init ==
    LET st == loadFavorites(NoDocument) IN
    /\ groups = st.groups
    /\ heap = st.heap
    /\ activeGroup = st.activeGroup
    /\ history = st.history
    /\ disk = NoDocument
    /\ pending = NoPending
    /\ commands = 0

\* what the quick pick of moveToGroup / copyToGroup can return: nothing when
\* getAllGroupsWithPath does not return
QuickPickItems(st) ==
    IF \E n \in DOMAIN st.groups : getGroupFullPathLoops(st, n) THEN {}
    ELSE getAllGroupsWithPath(st)

\* the commands that run from start to end
Command ==
    \/ Running /\ \E uri \in FilePaths \cup {DirPath, MissingPath} : AddFavorite(uri)
    \/ Running /\ \E item \in FileElements(Store) : RemoveFavorite(item)
    \/ Running /\ \E item \in FileElements(Store) : RemoveFromGroup(item)
    \/ Running /\ \E name \in EditableGroups(Store) : DeleteGroup(name)
    \/ Running /\ RemoveAll
    \/ Running /\ \E name \in VisibleGroups(Store) \cup {NULL} : SetActiveGroup(name)
    \/ Running /\ Undo
    \/ Running /\ UndoEmpty
    \/ Running /\ \E target \in VisibleGroups(Store), items \in Selections(Store),
                     isCopy \in BOOLEAN : HandleDrop(target, items, isCopy)
    \/ Running /\ Restart
    \/ Running /\ \E parent \in VisibleGroups(Store) \cup {NULL}, value \in GroupNames :
                     AddNewGroup(parent, value)
    \/ Running /\ \E name \in EditableGroups(Store), value \in GroupNames :
                     RenameGroup(name, value)
    \/ Running /\ \E items \in Selections(Store), path \in QuickPickItems(Store) :
                     MoveToGroup(items, path)
    \/ Running /\ \E items \in Selections(Store), path \in QuickPickItems(Store) :
                     CopyToGroup(items, path)
    \/ Running /\ \E uri \in FilePaths, groupName \in GroupNames : AddToGroup(uri, groupName)

\* the steps of the commands that wait for the user
Step ==
    \/ Running /\ \E parent \in VisibleGroups(Store) \cup {NULL} : AddNewGroupOpen(parent)
    \/ Running /\ \E name \in EditableGroups(Store) : RenameGroupOpen(name)
    \/ Running /\ \E value \in GroupNames : TypeName(value)
    \/ Running /\ Cancel
    \/ Running /\ AddNewGroupAccept
    \/ Running /\ RenameGroupAccept
    \/ Running /\ \E items \in Selections(Store) : MoveToGroupOpen(items)
    \/ Running /\ \E items \in Selections(Store) : CopyToGroupOpen(items)
    \/ Running /\ \E path \in pending.choices : MoveToGroupAccept(path)
    \/ Running /\ \E path \in pending.choices : CopyToGroupAccept(path)
    \/ Running /\ \E uri \in FilePaths : AddToGroupOpen(uri)
    \/ Running /\ \E label \in pending.choices : AddToGroupPick(label)
    \/ Running /\ AddToGroupNew
    \/ Running /\ AddToGroupAccept

\* every command runs to its end before the next one starts
Next == Command

Spec == Init /\ [][Next]_vars

\* other commands run while an input box or a quick pick is open
NextAsync == Command \/ Step

SpecAsync == Init /\ [][NextAsync]_vars

----------------------------------------------------------------------------
(* What the properties look at *)

\* the content of a name -> object map: per group its file paths, its
\* subGroups and its parentGroup
Content(g, h) ==
    [n \in DOMAIN g |-> [files |-> DOMAIN h[g[n]].files,
                         subGroups |-> h[g[n]].subGroups,
                         parentGroup |-> h[g[n]].parentGroup]]

\* the group mapping and the active group of the store
StoreView == [groups |-> Content(groups, heap), activeGroup |-> activeGroup]

----------------------------------------------------------------------------
(* C1 *)

\* C1: after any sequence of store operations the group map contains a group
\* named "default", and that group's parentGroup is unset.
DefaultGroupAlwaysExists ==
    /\ DEFAULT_GROUP \in DOMAIN groups
    /\ heap[groups[DEFAULT_GROUP]].parentGroup = NULL

----------------------------------------------------------------------------
(* C2 *)

\* what undo() would make of the store: the group mapping and the active group
\* after it ("No operations to undo" leaves the store as it is)
UndoView ==
    LET st == IF history = <<>> THEN Store ELSE undo(Store) IN
    [groups |-> Content(st.groups, st.heap), activeGroup |-> st.activeGroup]

\* C2: for every mutating operation op and every reachable state s, op followed
\* by undo() yields the group mapping (names, file paths, subGroups,
\* parentGroup) and the activeGroup of s.  A step that changes the mapping or
\* the active group, and is neither undo nor a reload, is such an op.
OperationThenUndoRestores ==
    [][(StoreView' # StoreView /\ ~Undo /\ ~Restart) => UndoView' = StoreView]_vars

----------------------------------------------------------------------------
(* C3 *)

\* C3: a history snapshot is a deep copy: once pushed, no later store mutation
\* changes the groups, files, subGroups or parentGroup values it records.
\* (A snapshot keeps its index while it is in the history: no run of the model
\* is long enough for the shift at maxHistorySize.)
SnapshotsAreDeepCopies ==
    [][\A i \in (DOMAIN history) \cap (DOMAIN history') :
          Content(history'[i].groups, heap') = Content(history[i].groups, heap)]_vars

----------------------------------------------------------------------------
(* C4 *)

\* C4: every operation that changes the store's groups or activeGroup pushes
\* exactly one history snapshot of the pre-operation state: the history is one
\* longer, and its last entry records the group names and the activeGroup the
\* store had before the operation.
SnapshotBeforeEveryChange ==
    [][(StoreView' # StoreView /\ ~Undo /\ ~Restart) =>
          /\ Len(history') = Len(history) + 1
          /\ DOMAIN history'[Len(history')].groups = DOMAIN groups
          /\ history'[Len(history')].activeGroup = activeGroup]_vars

----------------------------------------------------------------------------
(* C5 *)

\* C5: in every reachable state every item stored in the files map of a group
\* g has groupName equal to g's name.  (Read in the code's favour for the
\* default group, whose items the code keeps without groupName: there an unset
\* groupName is taken as "default".)
ItemsNameTheirGroup ==
    \A g \in DOMAIN groups : \A p \in DOMAIN heap[groups[g]].files :
        \/ heap[groups[g]].files[p].groupName = g
        \/ g = DEFAULT_GROUP /\ heap[groups[g]].files[p].groupName = NULL

----------------------------------------------------------------------------
(* C6 *)

\* C6: in every reachable state each group whose parentGroup is set has a
\* parentGroup that names a group present in the store.
ParentGroupsExist ==
    \A g \in DOMAIN groups :
        heap[groups[g]].parentGroup # NULL => heap[groups[g]].parentGroup \in DOMAIN groups

----------------------------------------------------------------------------
(* C7 *)

\* the groups below name: those whose parentGroup links lead to it
RECURSIVE Below(_, _, _)
Below(st, S, k) ==
    IF k = 0 THEN S
    ELSE Below(st, S \cup {n \in DOMAIN st.groups : Get(st, n).parentGroup \in S}, k - 1)

Descendants(st, name) == Below(st, {name}, Cardinality(GroupNames)) \ {name}

\* C7: deleting a group that has N descendant sub-groups removes all N+1
\* groups, and afterwards no remaining group has a parentGroup naming a deleted
\* group.
DeleteGroupRemovesDescendants ==
    [][\A name \in EditableGroups(Store) :
          DeleteGroup(name) =>
              /\ (Descendants(Store, name) \cup {name}) \cap DOMAIN groups' = {}
              /\ \A g \in DOMAIN groups' :
                    heap'[groups'[g]].parentGroup
                        \notin Descendants(Store, name) \cup {name}]_vars

----------------------------------------------------------------------------
(* C8 *)

\* C8: in every reachable state activeGroup is either unset or the name of a
\* group present in the store.
ActiveGroupExists == activeGroup = NULL \/ activeGroup \in DOMAIN groups

----------------------------------------------------------------------------
(* C9 *)

\* C9: addFavorite(path) of an existing regular file inserts the path into the
\* files of activeGroup when activeGroup is set and names an existing group,
\* and otherwise into the files of the default group; in every case the path
\* is in the chosen group's files afterwards.
AddFavoriteFilesIntoChosenGroup ==
    [][\A uri \in FilePaths :
          AddFavorite(uri) =>
              LET chosen == IF activeGroup # NULL /\ activeGroup \in DOMAIN groups
                            THEN activeGroup ELSE DEFAULT_GROUP
              IN  /\ chosen \in DOMAIN groups'
                  /\ uri \in DOMAIN heap'[groups'[chosen]].files]_vars

----------------------------------------------------------------------------
(* C10 *)

\* C10: in every reachable state the parentGroup links are acyclic: following
\* parentGroup from any group ends, so getGroupFullPath terminates for every
\* group.
ParentLinksAcyclic == \A g \in DOMAIN groups : ~getGroupFullPathLoops(Store, g)

----------------------------------------------------------------------------
(* C11 *)

\* vscode-favorites.renameGroup run with the element of the default group, which
\* no menu offers: renameGroup shows 'Cannot rename default group' and returns
\* before any input box
RenameDefaultGroup == Commit(Store, FALSE, pending)

\* vscode-favorites.deleteGroup run with the element of the default group, which
\* no menu offers
DeleteDefaultGroup == DeleteGroup(DEFAULT_GROUP)

\* handleDrop(undefined, dataTransfer), a drop on the empty area of the view:
\* `if (!target) return;` is its first line
handleDropOnRoot(st, items, isCopy) == st

HandleDropOnRoot(items, isCopy) ==
    Commit(handleDropOnRoot(Store, items, isCopy), FALSE, pending)

\* the commands, also with the arguments the menus do not offer and with the
\* drop that has no target node
NextApi ==
    \/ Command
    \/ Running /\ RenameDefaultGroup
    \/ Running /\ DeleteDefaultGroup
    \/ Running /\ \E items \in Selections(Store), isCopy \in BOOLEAN :
                     HandleDropOnRoot(items, isCopy)

SpecApi == Init /\ [][NextApi]_vars

\* C11: renameGroup applied to the default group and deleteGroup applied to the
\* default group both fail and leave groups, files and activeGroup unchanged.
DefaultGroupProtected ==
    [][((RenameDefaultGroup \/ DeleteDefaultGroup) /\ DEFAULT_GROUP \in DOMAIN groups)
          => StoreView' = StoreView]_vars

----------------------------------------------------------------------------
(* C12 *)

\* a document an earlier session saved: the default group, and a group A
\* that holds f1
SavedDocument ==
    [exists |-> TRUE,
     groups |-> [n \in {DEFAULT_GROUP, "A"} |->
                    [files |-> IF n = "A" THEN FilePaths ELSE {},
                     parentGroup |-> NULL]],
     activeGroup |-> NULL]

\* the window opens on a workspace without a document, or with SavedDocument
InitLoaded ==
    \E doc \in {NoDocument, SavedDocument} :
        LET st == loadFavorites(doc) IN
        /\ groups = st.groups
        /\ heap = st.heap
        /\ activeGroup = st.activeGroup
        /\ history = st.history
        /\ disk = doc
        /\ pending = NoPending
        /\ commands = 0

\* the name prompts of addNewGroup and renameGroup, and the commands without a
\* prompt that add or remove groups while such a prompt is open
NextPrompt ==
    \/ Running /\ \E item \in FileElements(Store) : RemoveFavorite(item)
    \/ Running /\ \E name \in EditableGroups(Store) : DeleteGroup(name)
    \/ Running /\ Undo
    \/ Running /\ \E parent \in VisibleGroups(Store) \cup {NULL} : AddNewGroupOpen(parent)
    \/ Running /\ \E name \in EditableGroups(Store) : RenameGroupOpen(name)
    \/ Running /\ \E value \in GroupNames : TypeName(value)
    \/ Running /\ Cancel
    \/ Running /\ AddNewGroupAccept
    \/ Running /\ RenameGroupAccept

SpecPrompt == InitLoaded /\ [][NextPrompt]_vars

\* C12: creating a group, or renaming a group, to a name that is already the
\* name of another group is rejected and leaves groups, files, activeGroup and
\* history unchanged; it never replaces the existing group.
DuplicateNameRejected ==
    [][(\/ AddNewGroupAccept /\ pending.value \in DOMAIN groups
        \/ /\ RenameGroupAccept
           /\ pending.value \in DOMAIN groups
           /\ pending.value # pending.element.name)
          => StoreView' = StoreView /\ history' = history]_vars

----------------------------------------------------------------------------
(* C13 *)

\* a command of a long session: as Commit, counted against MaxLongRun
CommitLong(st, saved) ==
    /\ commands < MaxLongRun
    /\ \E c \in {Collect(st)} :
          /\ groups' = c.groups
          /\ heap' = c.heap
          /\ activeGroup' = c.activeGroup
          /\ history' = c.history
          /\ disk' = IF saved THEN Serialize(c) ELSE disk
          /\ pending' = pending
          /\ commands' = commands + 1

\* vscode-favorites.removeAll, any number of times: each one pushes a snapshot
RemoveAllLong == CommitLong(removeAll(Store), hasFiles(Store))

\* vscode-favorites.setActiveGroup on the default group's node
SetActiveGroupLong ==
    /\ activeGroup # DEFAULT_GROUP
    /\ CommitLong(setActiveGroup(Store, DEFAULT_GROUP), TRUE)

NextHistory ==
    \/ RemoveAllLong
    \/ SetActiveGroupLong

SpecHistory == Init /\ [][NextHistory]_vars

\* C13: the history never holds more than maxHistorySize (50) snapshots; a
\* snapshot pushed onto a full history drops the oldest one and keeps the
\* others in the order they were pushed, so that after 60 pushes the history
\* holds exactly the 50 most recent snapshots.
HistoryKeepsMostRecent ==
    /\ [](Len(history) <= maxHistorySize)
    /\ [][RemoveAllLong =>
            LET snapshot == [groups |-> groups, activeGroup |-> activeGroup]
            IN  history' = IF Len(history) = maxHistorySize
                           THEN Append(Tail(history), snapshot)
                           ELSE Append(history, snapshot)]_vars

\* 60 snapshots or more were pushed, of which the 50 most recent remain
SixtySnapshotsPushed ==
    /\ commands = MaxLongRun
    /\ Len(history) = maxHistorySize
    /\ history[1].activeGroup = NULL
    /\ history[maxHistorySize].activeGroup = DEFAULT_GROUP

----------------------------------------------------------------------------
(* C14 *)

\* the groups a name -> object map holds, with all the fields of their objects
Objects(g, h) == [n \in DOMAIN g |-> h[g[n]]]

\* the snapshots of a history, with the objects they hold
Snapshots(hist, h) ==
    [i \in DOMAIN hist |-> [groups |-> Objects(hist[i].groups, h),
                            activeGroup |-> hist[i].activeGroup]]

\* C14: undo() on a non-empty history removes exactly the most recent snapshot,
\* makes that snapshot's groups and activeGroup the live state and pushes no
\* snapshot: the history after it is the history before it without its last
\* element, so that consecutive undos walk backward and nothing can be redone.
UndoPopsMostRecentSnapshot ==
    [][Undo =>
         LET before == Snapshots(history, heap)
             last == before[Len(history)]
         IN  /\ Objects(groups', heap') = last.groups
             /\ activeGroup' = last.activeGroup
             /\ Snapshots(history', heap') = SubSeq(before, 1, Len(history) - 1)]_vars

\* undo() has run: group A, created inside the default group and then
\* deleted, is live again as the snapshot held it (deleteGroup had taken it
\* out of its parent's subGroups), and the snapshot is gone from the history
UndoneDeleteGroup ==
    /\ history = <<>>
    /\ DOMAIN groups = {DEFAULT_GROUP, "A"}
    /\ heap[groups["A"]].parentGroup = DEFAULT_GROUP
    /\ "A" \notin heap[groups[DEFAULT_GROUP]].subGroups

----------------------------------------------------------------------------
(* C15 *)

\* C15: undo() with an empty history is a no-op: the groups, their files, the
\* activeGroup and the history are unchanged, and nothing is persisted.
UndoOfEmptyHistoryIsNoOp ==
    [][UndoEmpty =>
         /\ Objects(groups', heap') = Objects(groups, heap)
         /\ activeGroup' = activeGroup
         /\ history' = history
         /\ disk' = disk]_vars

\* the store after the default group was activated and undo() then found no
\* snapshot: the group is still active, in the store and in the document
NothingToUndo ==
    /\ commands = 2
    /\ history = <<>>
    /\ activeGroup = DEFAULT_GROUP
    /\ disk.exists /\ disk.activeGroup = DEFAULT_GROUP
    /\ Objects(groups, heap) = Objects(loadFavorites(NoDocument).groups,
                                       loadFavorites(NoDocument).heap)

----------------------------------------------------------------------------
(* C16 *)

\* the group a quick pick entry stands for
PickedGroup(targetGroupPath) ==
    IF targetGroupPath = <<"(Default Group)">> THEN DEFAULT_GROUP
    ELSE LastSegment(targetGroupPath)

\* C16: moveToGroup of the item with path p from group S to a different group
\* T ends with p absent from S's files and present in T's files with groupName
\* T (for the default group, whose items the code keeps without groupName,
\* unset is taken as "default"), with no item lost, and with the files of every
\* other group, the set of groups, the parentGroup and subGroups links and
\* activeGroup unchanged.
MoveToGroupMovesOnlyTheItem ==
    [][\A item \in FileElements(Store) : \A path \in QuickPickItems(Store) :
          (MoveToGroup(<<item>>, path) /\ PickedGroup(path) # item.groupName) =>
             LET S == item.groupName
                 T == PickedGroup(path)
                 p == item.path
             IN  /\ DOMAIN groups' = DOMAIN groups
                 /\ \A g \in DOMAIN groups :
                       /\ DOMAIN heap'[groups'[g]].files =
                             IF g = S THEN DOMAIN heap[groups[g]].files \ {p}
                             ELSE IF g = T THEN DOMAIN heap[groups[g]].files \cup {p}
                             ELSE DOMAIN heap[groups[g]].files
                       /\ heap'[groups'[g]].subGroups = heap[groups[g]].subGroups
                       /\ heap'[groups'[g]].parentGroup = heap[groups[g]].parentGroup
                 /\ T \in DOMAIN groups'
                 /\ heap'[groups'[T]].files[p].groupName
                       \in (IF T = DEFAULT_GROUP THEN {NULL, T} ELSE {T})
                 /\ activeGroup' = activeGroup]_vars

----------------------------------------------------------------------------
(* C17 *)

\* the quick pick entries moveToGroup offers for one item (none while the
\* parent links loop, when the command never gets to its quick pick)
MoveTargets(st, item) ==
    IF QuickPickItems(st) = {} THEN {} ELSE TargetChoices(st, <<item>>)

\* C17: for an item X in group A and another group B, moving X from A to B and
\* then back from B to A yields a store equal by content to the one before the
\* two moves: same groups, same file paths and groupName values in each group,
\* same links, same activeGroup.
MoveThereAndBackRestores ==
    \A item \in FileElements(Store) : \A path1 \in MoveTargets(Store, item) :
        LET A == item.groupName
            B == PickedGroup(path1)
            st1 == moveToGroup(Store, <<item>>, path1)
            back == FileElement(item.path, B)
        IN  (B # A /\ back \in FileElements(st1)) =>
               \A path2 \in MoveTargets(st1, back) :
                   PickedGroup(path2) = A =>
                      LET st2 == moveToGroup(st1, <<back>>, path2)
                      IN  /\ Objects(st2.groups, st2.heap) = Objects(groups, heap)
                          /\ st2.activeGroup = activeGroup

----------------------------------------------------------------------------
(* C18 *)

\* C18: for an item X in group A and a group B that does not hold X's path
\* (an empty B included), copying X from A to B and then removing the copy
\* from B with removeFavorite yields the groups of before the copy: the same
\* set of groups, B with its previous files, X only where it was.
CopyThenRemoveRestores ==
    \A item \in FileElements(Store) : \A path \in MoveTargets(Store, item) :
        LET A == item.groupName
            B == PickedGroup(path)
            st1 == copyToGroup(Store, <<item>>, path)
            copy == FileElement(item.path, B)
        IN  (/\ B # A
             /\ B \in DOMAIN groups
             /\ item.path \notin DOMAIN heap[groups[B]].files
             /\ copy \in FileElements(st1)) =>
               LET st2 == removeFavorite(st1, copy)
               IN  /\ Objects(st2.groups, st2.heap) = Objects(groups, heap)
                   /\ st2.activeGroup = activeGroup

----------------------------------------------------------------------------
(* C19 *)

\* C19: removeFavorite(item) deletes only item.path from the files of the
\* group named by item.groupName; the set of groups is unchanged even when
\* that group's files become empty, and the files of all other groups, all
\* parentGroup and subGroups links and activeGroup are unchanged.
RemoveFavoriteKeepsGroups ==
    [][\A item \in FileElements(Store) :
          RemoveFavorite(item) =>
             /\ DOMAIN groups' = DOMAIN groups
             /\ \A g \in DOMAIN groups' \cap DOMAIN groups :
                   /\ DOMAIN heap'[groups'[g]].files =
                         IF g = item.groupName
                         THEN DOMAIN heap[groups[g]].files \ {item.path}
                         ELSE DOMAIN heap[groups[g]].files
                   /\ heap'[groups'[g]].subGroups = heap[groups[g]].subGroups
                   /\ heap'[groups'[g]].parentGroup = heap[groups[g]].parentGroup
             /\ activeGroup' = activeGroup]_vars

----------------------------------------------------------------------------
(* C20 *)

\* C20: removeAll() empties the files map of every group and leaves the set of
\* group names, every group's parentGroup and subGroups, and activeGroup
\* unchanged.
RemoveAllKeepsEmptyGroups ==
    [][RemoveAll =>
         /\ DOMAIN groups' = DOMAIN groups
         /\ \A g \in DOMAIN groups' \cap DOMAIN groups :
               /\ DOMAIN heap'[groups'[g]].files = {}
               /\ heap'[groups'[g]].subGroups = heap[groups[g]].subGroups
               /\ heap'[groups'[g]].parentGroup = heap[groups[g]].parentGroup
         /\ activeGroup' = activeGroup]_vars

\* removeAll() has run on a store of two groups, one of them inside the other
\* and active: the snapshot it pushed is the last one, and both groups are
\* there, empty, with their links
RemovedAllOfTwoGroups ==
    /\ Len(history) > 0
    /\ history[Len(history)].groups = groups
    /\ history[Len(history)].activeGroup = activeGroup
    /\ DOMAIN groups = {DEFAULT_GROUP, "A"}
    /\ heap[groups["A"]].parentGroup = DEFAULT_GROUP
    /\ "A" \in heap[groups[DEFAULT_GROUP]].subGroups
    /\ activeGroup = "A"
    /\ \A g \in DOMAIN groups : DOMAIN heap[groups[g]].files = {}
    /\ disk.exists /\ \A g \in DOMAIN disk.groups : disk.groups[g].files = {}

----------------------------------------------------------------------------
(* C21 *)

\* C21: deleteGroup of a non-default group offers the mode MoveFilesToDefault,
\* under which every file of the deleted group is reinserted into the default
\* group with groupName cleared before the group is removed, so that none of
\* the group's own files is lost.  (deleteGroup reads no answer: the step is
\* the same whatever mode the user wants, and is held to this mode.)
DeleteGroupMovesFilesToDefault ==
    [][\A name \in EditableGroups(Store) :
          (DeleteGroup(name) /\ DEFAULT_GROUP \in DOMAIN groups) =>
             /\ DEFAULT_GROUP \in DOMAIN groups'
             /\ \A p \in DOMAIN heap[groups[name]].files :
                   /\ p \in DOMAIN heap'[groups'[DEFAULT_GROUP]].files
                   /\ heap'[groups'[DEFAULT_GROUP]].files[p].groupName = NULL]_vars

----------------------------------------------------------------------------
(* C22 *)

\* C22: dropping a file item F that is in group A onto group B with isCopy
\* false ends with F absent from A's files and present in B's files with
\* groupName B, and with the document written once, for the store after the
\* drop.
DropMovesFileIntoGroup ==
    [][\A F \in FileElements(Store) : \A B \in VisibleGroups(Store) \ {F.groupName} :
          HandleDrop(B, <<F>>, FALSE) =>
             /\ F.groupName \in DOMAIN groups'
                   => F.path \notin DOMAIN heap'[groups'[F.groupName]].files
             /\ B \in DOMAIN groups'
             /\ F.path \in DOMAIN heap'[groups'[B]].files
             /\ heap'[groups'[B]].files[F.path].groupName = B
             /\ disk' = Serialize([groups |-> groups', heap |-> heap',
                                  activeGroup |-> activeGroup',
                                  history |-> history'])]_vars

----------------------------------------------------------------------------
(* C23 *)

\* C23: dropping a batch onto the unfiled root (no target node) with isCopy
\* false moves every source item that has a groupName out of that group's
\* files and into the default group's files.
DropOnRootMovesToDefault ==
    [][\A items \in Selections(Store) :
          (HandleDropOnRoot(items, FALSE) /\ DEFAULT_GROUP \in DOMAIN groups) =>
             \A i \in DOMAIN items :
                 items[i].groupName \notin {NULL, DEFAULT_GROUP} =>
                    /\ DEFAULT_GROUP \in DOMAIN groups'
                    /\ items[i].path \in DOMAIN heap'[groups'[DEFAULT_GROUP]].files
                    /\ items[i].groupName \in DOMAIN groups'
                          => items[i].path
                                \notin DOMAIN heap'[groups'[items[i].groupName]].files]_vars

----------------------------------------------------------------------------
(* C24 *)

\* what the persisted document keeps of a store: the group names, the file
\* paths and the parentGroup of each group, and activeGroup
Persisted(st) ==
    [groups |-> [n \in DOMAIN st.groups |->
                    [files |-> DOMAIN Get(st, n).files,
                     parentGroup |-> Get(st, n).parentGroup]],
     activeGroup |-> st.activeGroup]

\* C24: saving the store and loading the written document into a fresh
\* provider reproduces the same set of group names, the same file paths in
\* each group, the same parentGroup of each group and the same activeGroup.
SaveThenLoadReproduces ==
    Persisted(loadFavorites(Serialize(Store))) = Persisted(Store)

----------------------------------------------------------------------------
(* C25 *)

\* C25: after loading the persisted document the subGroups index is rebuilt
\* from the parentGroup back-references: every loaded group g whose parentGroup
\* names a loaded group p is a member of p's subGroups.
LoadRebuildsSubGroups ==
    [][Restart =>
         \A g \in DOMAIN groups' :
             LET p == heap'[groups'[g]].parentGroup IN
             p \in DOMAIN groups' => g \in heap'[groups'[p]].subGroups]_vars

----------------------------------------------------------------------------
(* C26 *)

\* One entry of data.groups in a favor.json that anyone may have written:
\*   "group"  { files: [...], parentGroup }
\*   "empty"  {} : no files array, no parentGroup
\*   "null"   null : reading group.files throws a TypeError
GroupEntries ==
    [name : GroupNames, kind : {"group"}, files : {FilePaths}, parentGroup : {NULL}]
        \cup [name : GroupNames, kind : {"empty", "null"}, files : {{}},
              parentGroup : {NULL}]

\* the contents of .vscode/favor.json: absent, not JSON, or an object whose
\* groups are up to two entries, in the order of the file
FileContents ==
    {[exists |-> FALSE, parses |-> FALSE, entries |-> <<>>, activeGroup |-> NULL],
     [exists |-> TRUE, parses |-> FALSE, entries |-> <<>>, activeGroup |-> NULL]}
        \cup [exists : {TRUE}, parses : {TRUE},
              entries : {<<>>} \cup {<<e>> : e \in GroupEntries}
                            \cup {<<e[1], e[2]>> :
                                     e \in {x \in GroupEntries \X GroupEntries :
                                               x[1].name # x[2].name}},
              activeGroup : {NULL, "A"}]

\* Object.entries(groups).forEach(...): [st, thrown]
RECURSIVE loadEntries(_, _)
loadEntries(st, entries) ==
    IF entries = <<>> THEN [st |-> st, thrown |-> FALSE]
    ELSE LET e == Head(entries) IN
         IF e.kind = "null" THEN [st |-> st, thrown |-> TRUE]
         ELSE LET s1 == SetNewGroup(st, e.name, e.parentGroup)
                  s2 == [s1 EXCEPT !.heap = [@ EXCEPT ![s1.groups[e.name]].files =
                                                [q \in e.files |-> Item(NULL)]]]
              IN  loadEntries(s2, Tail(entries))

\* the constructor and loadFavorites() on any content of the file: what was
\* set before a throw stays, what comes after it (the default group test, the
\* activeGroup) is skipped
loadContent(content) ==
    LET constructed == loadFavorites(NoDocument) IN
    IF ~content.exists \/ ~content.parses THEN constructed
    ELSE LET r == loadEntries(constructed, content.entries) IN
         IF r.thrown THEN r.st
         ELSE [r.st EXCEPT !.activeGroup = content.activeGroup]

\* the window opens on a workspace whose favor.json is any of FileContents
InitContent ==
    /\ disk \in FileContents
    /\ groups = EmptyMap
    /\ heap = [o \in ObjIds |-> FreeObj]
    /\ activeGroup = NULL
    /\ history = <<>>
    /\ pending = NoPending
    /\ commands = 0

\* activate: new FavoritesProvider(context)
LoadContent ==
    /\ commands = 0
    /\ \E c \in {Collect(loadContent(disk))} :
          /\ groups' = c.groups
          /\ heap' = c.heap
          /\ activeGroup' = c.activeGroup
          /\ history' = c.history
    /\ commands' = 1
    /\ UNCHANGED <<disk, pending>>

SpecLoad == InitContent /\ [][LoadContent]_vars

\* the file is missing, is not JSON, or has a malformed group entry
Corrupt(content) ==
    \/ ~content.exists
    \/ ~content.parses
    \/ \E i \in DOMAIN content.entries : content.entries[i].kind # "group"

\* C26: loading fails open: when the persisted document is missing or corrupt
\* (unparseable, or parseable with a malformed group entry) the resulting store
\* holds exactly one group, the empty default group, with activeGroup unset.
LoadFailsOpen ==
    [][(LoadContent /\ Corrupt(disk)) =>
          /\ DOMAIN groups' = {DEFAULT_GROUP}
          /\ DOMAIN heap'[groups'[DEFAULT_GROUP]].files = {}
          /\ activeGroup' = NULL]_vars

----------------------------------------------------------------------------
(* C27 *)

----------------------------------------------------------------------------
(* C28 *)

\* A line of the clipboard text, as its pieces: " " is white space, "#" the
\* comment sign, and F1, F2, D, M stand for the characters of the paths
\* /d/f1, /d/sub/f2, /d (a directory) and /missing.
BlankLine == <<" ">>
CommentLine == <<" ", "#", "F1">>
ClipboardLines ==
    {<<>>, BlankLine, CommentLine, <<"F1">>, <<" ", "F2", " ">>, <<"M">>, <<"D">>}

\* the five lines of the example: two existing files, a comment line, a blank
\* line and a missing path
ExampleLines == <<<<"F1">>, CommentLine, <<"M">>, BlankLine, <<" ", "F2", " ">>>>

\* the example, started at each of its lines
ExampleTexts ==
    {[i \in 1..5 |-> ExampleLines[((i + k) % 5) + 1]] : k \in 0..4}

\* the texts the clipboard holds: up to two lines, or the example
ClipboardTexts ==
    {<<>>} \cup {<<l>> : l \in ClipboardLines}
        \cup {<<l[1], l[2]>> : l \in ClipboardLines \X ClipboardLines}
        \cup ExampleTexts

\* String.prototype.trim
RECURSIVE TrimStart(_)
TrimStart(line) ==
    IF line # <<>> /\ Head(line) = " " THEN TrimStart(Tail(line)) ELSE line

RECURSIVE TrimEnd(_)
TrimEnd(line) ==
    IF line # <<>> /\ line[Len(line)] = " "
    THEN TrimEnd(SubSeq(line, 1, Len(line) - 1))
    ELSE line

Trim(line) == TrimEnd(TrimStart(line))

\* text.split('\n').filter(line => line.trim() && !line.trim().startsWith('#'))
\*     .map(line => line.trim())
RECURSIVE ParsePaths(_)
ParsePaths(text) ==
    IF text = <<>> THEN <<>>
    ELSE LET line == Trim(Head(text)) IN
         IF line # <<>> /\ Head(line) # "#"
         THEN <<line>> \o ParsePaths(Tail(text))
         ELSE ParsePaths(Tail(text))

\* the path a trimmed line names
LinePath(line) ==
    CASE line = <<"F1">> -> <<"d", "f1">>
      [] line = <<"F2">> -> <<"d", "sub", "f2">>
      [] line = <<"D">> -> DirPath
      [] OTHER -> MissingPath

\* stat.type === vscode.FileType.File, for a path whose stat does not throw
StatIsFile(path) == path \notin {DirPath, MissingPath}

\* addFilesFromText is at `await vscode.workspace.fs.stat(uri)` for paths[next]
Importing(groupName, text, paths, next, addedCount, errorCount) ==
    [op |-> "addFilesFromText", groupName |-> groupName, text |-> text,
     paths |-> paths, next |-> next, addedCount |-> addedCount,
     errorCount |-> errorCount]

\* vscode-favorites.addFilesFromClipboard on a group node, the confirmation
\* answered Yes, up to the first stat of addFilesFromText; without a path in
\* the text the command returns after its warning
AddFilesFromClipboard(groupName, text) ==
    /\ pending.op \in {"none", "report"}
    /\ Commit(Store, FALSE,
              IF ParsePaths(text) = <<>> THEN NoPending
              ELSE Importing(groupName, text, ParsePaths(text), 1, 0, 0))

\* addFilesFromText from the return of one stat to the next stat, or to its
\* end: saveFavorites() if anything was added, and the message with the counts
AddFilesFromTextStep ==
    /\ pending.op = "addFilesFromText"
    /\ LET filePath == LinePath(pending.paths[pending.next])
           isFile == ~StatThrows(filePath) /\ StatIsFile(filePath)
           inserts == isFile /\ Has(Store, pending.groupName)
           st == IF inserts
                 THEN FilesSet(Store, pending.groupName, filePath,
                               Item(pending.groupName))
                 ELSE Store
           addedCount == pending.addedCount + (IF inserts THEN 1 ELSE 0)
           errorCount == pending.errorCount + (IF isFile THEN 0 ELSE 1)
       IN  IF pending.next < Len(pending.paths)
           THEN Commit(st, FALSE,
                       Importing(pending.groupName, pending.text, pending.paths,
                                 pending.next + 1, addedCount, errorCount))
           ELSE Commit(st, addedCount > 0,
                       [op |-> "report", groupName |-> pending.groupName,
                        text |-> pending.text, addedCount |-> addedCount,
                        errorCount |-> errorCount])

\* an import from the clipboard, and the commands without a prompt that remove
\* groups while it waits for a stat
NextImport ==
    \/ Running /\ \E groupName \in VisibleGroups(Store), text \in ClipboardTexts :
                     AddFilesFromClipboard(groupName, text)
    \/ Running /\ AddFilesFromTextStep
    \/ Running /\ \E item \in FileElements(Store) : RemoveFavorite(item)
    \/ Running /\ \E name \in EditableGroups(Store) : DeleteGroup(name)

SpecImport == InitLoaded /\ [][NextImport]_vars

\* the lines of a text that are candidates: not blank and not a comment
Candidates(text) ==
    {i \in DOMAIN text : Trim(text[i]) # <<>> /\ Trim(text[i])[1] # "#"}

\* C28: the bulk import discards blank lines and lines starting with #, and of
\* the remaining lines counts as added those that are an existing regular
\* file, which it inserts into the target group, and as failed the others: two
\* existing files, a comment line, a blank line and a missing path give
\* added = 2 and failed = 1.
ImportCountsAddedAndFailed ==
    [][(pending.op = "addFilesFromText" /\ pending'.op = "report") =>
          LET text == pending'.text
              files == {i \in Candidates(text) :
                           LinePath(Trim(text[i])) \in {<<"d", "f1">>, <<"d", "sub", "f2">>}}
          IN  /\ pending'.addedCount = Cardinality(files)
              /\ pending'.errorCount = Cardinality(Candidates(text) \ files)
              /\ text \in ExampleTexts
                    => pending'.addedCount = 2 /\ pending'.errorCount = 1
              /\ pending'.addedCount > 0 =>
                    /\ pending'.groupName \in DOMAIN groups'
                    /\ \A i \in files :
                          LinePath(Trim(text[i]))
                              \in DOMAIN heap'[groups'[pending'.groupName]].files]_vars

----------------------------------------------------------------------------
(* C29 *)

\* a step that puts an input box or a quick pick on the screen, or changes
\* the one that is there: the commands up to their await, the text typed into
\* the box, "New Group..." leading from the quick pick to the input box
PromptOpens == pending'.op \notin {"none", "hang"} /\ pending' # pending

\* C29: a prompted operation that the user cancels is a no-op.  Neither the
\* step of moveToGroup, copyToGroup, renameGroup, addNewGroup or the addToGroup
\* command that opens its quick pick or input box, nor the dismissal of that
\* prompt, pushes a history snapshot or changes the groups, their files, the
\* active group or the saved document.
CancelledPromptIsNoOp ==
    [][(PromptOpens \/ Cancel)
          => /\ groups' = groups
             /\ heap' = heap
             /\ activeGroup' = activeGroup
             /\ history' = history
             /\ disk' = disk]_vars

\* the quick pick of moveToGroup is open for a favorite, over a store that has
\* a snapshot: the state in which the user dismisses the pick
MovePickerOpenToCancel ==
    /\ pending.op = "moveToGroup"
    /\ Len(pending.items) > 0
    /\ Len(history) > 0

----------------------------------------------------------------------------
(* C30 *)

\* the uris of a multi-select "Add to Favorites": one or two of a file, the
\* directory and a path that does not exist
MaxUris == 2

UriLists ==
    UNION {[1..n -> FilePaths \cup {DirPath, MissingPath}] : n \in 1..MaxUris}

\* vscode-favorites.addToFavorites is inside uris.forEach: uris are the calls
\* of addFavorite not started yet, awaiting the calls suspended at
\* `await this.getAllFilesInDirectory(uri.fsPath)`, in the order they resume
Adding(uris, awaiting) ==
    [op |-> "addToFavorites", uris |-> uris, awaiting |-> awaiting]

\* pending after a step of the command: none when no call is left
AddingOrDone(uris, awaiting) ==
    IF uris = <<>> /\ awaiting = <<>> THEN NoPending ELSE Adding(uris, awaiting)

\* vscode-favorites.addToFavorites with uris (multi-select): forEach begins
AddToFavorites(uris) ==
    /\ pending.op = "none"
    /\ Len(history) + Len(uris) <= MaxHistory
    /\ pending' = Adding(uris, <<>>)
    /\ Running
    /\ commands' = commands + 1
    /\ UNCHANGED <<groups, heap, activeGroup, history, disk>>

\* forEach starts addFavorite(uri) for the next uri and does not await it: the
\* call runs saveToHistory and statSync; for a file it inserts and saves; for
\* a directory it runs up to its await and returns its promise
AddFavoriteCall ==
    /\ pending.op = "addToFavorites"
    /\ pending.uris # <<>>
    /\ LET uri == Head(pending.uris)
           s1 == saveToHistory(Store)
       IN  IF StatThrows(uri)
           THEN Commit(s1, FALSE, AddingOrDone(Tail(pending.uris), pending.awaiting))
           ELSE IF uri = DirPath
           THEN Commit(s1, FALSE, Adding(Tail(pending.uris), Append(pending.awaiting, uri)))
           ELSE Commit(InsertFavorites(s1, {uri}), TRUE,
                       AddingOrDone(Tail(pending.uris), pending.awaiting))

\* forEach has returned: the first suspended addFavorite resumes after its
\* await, inserts the files of the directory and saves
AddFavoriteResume ==
    /\ pending.op = "addToFavorites"
    /\ pending.uris = <<>>
    /\ pending.awaiting # <<>>
    /\ Commit(InsertFavorites(Store, getAllFilesInDirectory(Head(pending.awaiting))),
              TRUE, AddingOrDone(<<>>, Tail(pending.awaiting)))

\* multi-select adds, and between them the commands that choose where
\* addFavorite puts its files
NextMulti ==
    \/ Running /\ \E uris \in UriLists : AddToFavorites(uris)
    \/ Running /\ AddFavoriteCall
    \/ Running /\ AddFavoriteResume
    \/ Running /\ pending.op = "none"
               /\ \E parent \in VisibleGroups(Store) \cup {NULL}, value \in GroupNames :
                     AddNewGroup(parent, value)
    \/ Running /\ pending.op = "none"
               /\ \E name \in VisibleGroups(Store) \cup {NULL} : SetActiveGroup(name)
    \/ Running /\ pending.op = "none" /\ Undo

SpecMulti == Init /\ [][NextMulti]_vars

\* an addFavorite call has taken its snapshot and not yet made its insertions
SuspendedMidMutation ==
    pending.op = "addToFavorites" /\ pending.awaiting # <<>>

\* C30: no mutation entry point yields between its history snapshot and the end
\* of its store change.  While an addFavorite call started by a multi-select
\* add has pushed its snapshot and not yet inserted its files, the only step
\* taken is the rest of that call: no other call pushes a snapshot or inserts
\* files, and the files go to the group that was the target when the call
\* started.
AddFavoriteCallsDoNotInterleave ==
    [][SuspendedMidMutation
          => /\ history' = history
             /\ AddFavoriteResume]_vars

----------------------------------------------------------------------------
(* C31 *)

\* C31: renameGroup(old, new), for a group old other than the default group
\* and a name new that no group has, moves the entry of the group to the key
\* new and removes the key old; the group has exactly the file paths it had,
\* every item in it has groupName = new, and every other group has the files it
\* had.
RenameGroupMovesEntry ==
    [][\A old \in DOMAIN groups \ {DEFAULT_GROUP}, new \in GroupNames \ DOMAIN groups :
          (/\ pending' = NoPending
           /\ activeGroup' = activeGroup
           /\ old \in EditableGroups(Store)
           /\ RenameGroup(old, new))
              => /\ new \in DOMAIN groups'
                 /\ old \notin DOMAIN groups'
                 /\ DOMAIN heap'[groups'[new]].files = DOMAIN heap[groups[old]].files
                 /\ \A p \in DOMAIN heap'[groups'[new]].files :
                       heap'[groups'[new]].files[p].groupName = new
                 /\ \A n \in DOMAIN groups \ {old} :
                       /\ n \in DOMAIN groups'
                       /\ heap'[groups'[n]].files = heap[groups[n]].files]_vars

\* the sub-group A of the default group, holding a file, has been renamed to
\* BA: the default group still lists A, and BA names the default group as its
\* parent
RenamedGroupWithFile ==
    /\ DOMAIN groups = {DEFAULT_GROUP, "BA"}
    /\ heap[groups[DEFAULT_GROUP]].subGroups = {"A"}
    /\ heap[groups["BA"]].parentGroup = DEFAULT_GROUP
    /\ \E p \in DOMAIN heap[groups["BA"]].files :
          heap[groups["BA"]].files[p].groupName = "BA"

----------------------------------------------------------------------------
(* C32 *)

\* handleDrag has put dragData = { items, isCopy } into the DataTransfer, and
\* the drop has not happened yet
Dragging(items, isCopy) == [op |-> "drag", items |-> items, isCopy |-> isCopy]

\* handleDrag(items, dataTransfer, token): isCopy is token.isCancellationRequested
HandleDrag(items, isCopy) ==
    /\ pending.op = "none"
    /\ pending' = Dragging(items, isCopy)
    /\ Running
    /\ commands' = commands + 1
    /\ UNCHANGED <<groups, heap, activeGroup, history, disk>>

\* handleDrop(target, dataTransfer) on a group node, with the dragData that
\* handleDrag stored
HandleDropDragged(target) ==
    /\ pending.op = "drag"
    /\ Commit(handleDrop(Store, GroupElement(target), pending.items, pending.isCopy),
              TRUE, NoPending)

\* a drag and its drop, and the commands that add and remove groups and files
\* between the two
NextDrag ==
    \/ Running /\ \E items \in Selections(Store), isCopy \in BOOLEAN :
                     HandleDrag(items, isCopy)
    \/ Running /\ \E target \in VisibleGroups(Store) : HandleDropDragged(target)
    \/ Running /\ \E uri \in FilePaths : AddFavorite(uri)
    \/ Running /\ \E item \in FileElements(Store) : RemoveFavorite(item)
    \/ Running /\ \E name \in EditableGroups(Store) : DeleteGroup(name)

SpecDrag == InitLoaded /\ [][NextDrag]_vars

\* C32: in a drop with isCopy = false, a dragged item whose groupName names a
\* group that is no longer in the store is skipped, and the other items of the
\* batch are still processed: after the drop the target group holds the paths
\* it held and the paths of the items whose source group exists, each of these
\* items with groupName = the target.
DropSkipsItemsOfMissingGroups ==
    [][\A T \in DOMAIN groups :
          (/\ pending.op = "drag"
           /\ ~pending.isCopy
           /\ \E i \in DOMAIN pending.items : pending.items[i].groupName \notin DOMAIN groups
           /\ HandleDropDragged(T))
              => LET live == {i \in DOMAIN pending.items :
                                 pending.items[i].groupName \in DOMAIN groups}
                     moved == {pending.items[i].path : i \in live}
                 IN  /\ T \in DOMAIN groups'
                     /\ DOMAIN heap'[groups'[T]].files
                           = DOMAIN heap[groups[T]].files \cup moved
                     /\ \A p \in moved : heap'[groups'[T]].files[p].groupName = T]_vars

----------------------------------------------------------------------------
(* C33 *)

\* the groups and files after moveToGroup (isCopy = false) or copyToGroup
\* (isCopy = true) has been applied with target T to each item in order
MovedOrCopied(st, items, T, isCopy) ==
    LET r == IF isCopy
             THEN copyItems(st, items, IF T = DEFAULT_GROUP THEN "(Default Group)" ELSE T)
             ELSE moveItems(st, items, T)
    IN  Content(r.groups, r.heap)

\* C33: for every batch of file items, every target group T and either value of
\* isCopy, handleDrop leaves the groups and their files as moveToGroup
\* (isCopy = false) or copyToGroup (isCopy = true) with target T, applied to
\* each item of the batch in order, leaves them.
HandleDropAsMoveOrCopy ==
    [][\A T \in VisibleGroups(Store), items \in Selections(Store), isCopy \in BOOLEAN :
          HandleDrop(T, items, isCopy)
              => Content(groups', heap') = MovedOrCopied(Store, items, T, isCopy)]_vars

----------------------------------------------------------------------------
(* C34 *)

\* C34: when all selected items share one source group G, the destination list
\* of moveToGroup and copyToGroup is "(Default Group)" and the full path of
\* every group other than G: the entry of G is absent, the entry of every other
\* group is present.
DestinationListOmitsOnlySourceGroup ==
    (\A n \in DOMAIN groups : ~getGroupFullPathLoops(Store, n))
        => \A items \in Selections(Store) :
              LET G == items[1].groupName IN
              (G # NULL /\ \A i \in DOMAIN items : items[i].groupName = G)
                  => TargetChoices(Store, items)
                        = {<<"(Default Group)">>}
                             \cup {getGroupFullPath(Store, n) : n \in DOMAIN groups \ {G}}

----------------------------------------------------------------------------
(* C35 *)

\* C35: an invocation that leaves the groups and activeGroup unchanged adds
\* nothing to the history: removeAll when no group has files, and addFavorite
\* of a path whose stat fails, leave the length of the history unchanged.
UnchangedStoreAddsNoSnapshot ==
    [][(/\ Content(groups', heap') = Content(groups, heap)
        /\ activeGroup' = activeGroup
        /\ \/ ~hasFiles(Store) /\ RemoveAll
           \/ AddFavorite(MissingPath))
          => Len(history') = Len(history)]_vars

----------------------------------------------------------------------------
(* C36 *)

\* the operations on the group tree, each answered before the next starts, on
\* a store that was loaded
NextTree ==
    \/ Running /\ \E parent \in VisibleGroups(Store) \cup {NULL}, value \in GroupNames :
                     AddNewGroup(parent, value)
    \/ Running /\ \E name \in EditableGroups(Store), value \in GroupNames :
                     RenameGroup(name, value)
    \/ Running /\ \E name \in EditableGroups(Store) : DeleteGroup(name)
    \/ Running /\ \E item \in FileElements(Store) : RemoveFavorite(item)
    \/ Running /\ Undo

SpecTree == InitLoaded /\ [][NextTree]_vars

\* C36: in every state reached by addNewGroup, renameGroup, deleteGroup,
\* removeFavorite and undo, the two directions of the group tree agree: for all
\* names p and c, c is in the subGroups of p if and only if the group c exists
\* and its parentGroup is p.
TreeDirectionsAgree ==
    \A p \in GroupNames, c \in GroupNames :
        (p \in DOMAIN groups /\ c \in heap[groups[p]].subGroups)
            <=> (c \in DOMAIN groups /\ heap[groups[c]].parentGroup = p)

----------------------------------------------------------------------------
(* C37 *)

\* C37: after renameGroup(old, new) of a group that has sub-groups, every group
\* whose parentGroup was old has parentGroup = new and is still reached from the
\* root of the tree view.
RenameGroupKeepsSubTree ==
    [][\A old \in DOMAIN groups \ {DEFAULT_GROUP}, new \in GroupNames \ DOMAIN groups :
          (/\ ChildGroups(Store, old) # {}
           /\ pending' = NoPending
           /\ old \in EditableGroups(Store)
           /\ RenameGroup(old, new))
              => \A c \in ChildGroups(Store, old) :
                    /\ c \in DOMAIN groups'
                    /\ heap'[groups'[c]].parentGroup = new
                    /\ c \in VisibleGroups([groups |-> groups', heap |-> heap',
                                            activeGroup |-> activeGroup',
                                            history |-> history'])]_vars

----------------------------------------------------------------------------
(* C38 *)

\* C38: for every call of addFilesFromText, added + failed is the number of
\* lines of the input that are neither blank nor a comment, also when the
\* target group is not in the store.
ImportCountsEveryLine ==
    [][(pending.op = "addFilesFromText" /\ pending'.op = "report")
          => pending'.addedCount + pending'.errorCount
                = Cardinality(Candidates(pending'.text))]_vars

----------------------------------------------------------------------------
(* C39 *)

\* C39: when another command has created a group named N while the name prompt
\* of renameGroup or addNewGroup was open, and the prompt is accepted with N,
\* the operation does not replace the group N: its files, parentGroup and
\* subGroups are after the operation what they were before it.
AcceptedNameKeepsExistingGroup ==
    [][(/\ \/ pending.op = "addNewGroup" /\ AddNewGroupAccept
           \/ /\ pending.op = "renameGroup"
              /\ pending.value # pending.element.name
              /\ RenameGroupAccept
        /\ pending.value \in DOMAIN groups)
          => /\ pending.value \in DOMAIN groups'
             /\ heap'[groups'[pending.value]] = heap[groups[pending.value]]]_vars

----------------------------------------------------------------------------
(* C40 *)

\* a multi-selection (canSelectMany) of a file node, on which the command is
\* invoked, and a group node
MixedSelections(st) ==
    {<<e, GroupElement(g)>> : e \in FileElements(st), g \in VisibleGroups(st)}

\* moveToGroup and copyToGroup on selections of file nodes and on selections
\* that also hold a group node, and the commands that fill the store
NextSelect ==
    \/ Running /\ \E uri \in FilePaths : AddFavorite(uri)
    \/ Running /\ \E uri \in FilePaths, groupName \in GroupNames : AddToGroup(uri, groupName)
    \/ Running /\ \E items \in Selections(Store) \cup MixedSelections(Store),
                     path \in QuickPickItems(Store) : MoveToGroup(items, path)
    \/ Running /\ \E items \in Selections(Store) \cup MixedSelections(Store),
                     path \in QuickPickItems(Store) : CopyToGroup(items, path)

SpecSelect == Init /\ [][NextSelect]_vars

\* C40: in every reachable state every entry of every group's files map is a
\* file item with a path that is not empty: moveToGroup and copyToGroup on a
\* selection that also holds group nodes never store a group node as a file.
FilesHoldOnlyFileItems ==
    \A n \in DOMAIN groups : \A p \in DOMAIN heap[groups[n]].files : p # <<>>

====
